---- MODULE Spec2Model ----
(***************************************************************************)
(* Model of the model wrappers of noltinho/thesis:                         *)
(*   scripts/models.py  ResNet (3D backbone wrapper), EnsembleModel        *)
(*   models/dinohead.py DINOHead (projection head)                         *)
(*                                                                         *)
(* Tensors are modelled by their provenance and shape, never by their      *)
(* numbers: a tensor is [src, shape, reps], src naming where the values    *)
(* come from, shape its first dimensions, reps how many copies of the      *)
(* source are concatenated along dimension 1.  Parameter names are         *)
(* sequences of tokens, so that the removal of "module." from a checkpoint *)
(* key is a computation on the key.                                        *)
(***************************************************************************)
EXTENDS Integers, Sequences, FiniteSets, TLC

VARIABLES
    pc,          \* position inside ResNet.__init__
    args,        \* the arguments of the ResNet(...) call
    model,       \* self.model of the ResNet under construction, or NoModel
    model_dict,  \* the dictionary intialize_model returned, or NoDict
    ckpt,        \* what torch.load read, or NotRead
    diag,        \* whether the 'Invalid version' diagnostic was printed
    nets,        \* the constructed ResNet objects an ensemble is built from
    ens,         \* the EnsembleModel, or NoEnsemble
    lastOp,      \* per backbone, the most recent freezing operation on it
    out,         \* the last result of EnsembleModel.forward, or NoOutput
    dpc,         \* position inside DINOHead.__init__
    dargs,       \* the arguments of the DINOHead(...) call
    head         \* the DINOHead under construction

rvars == <<pc, args, model, model_dict, ckpt, diag>>
evars == <<nets, ens, lastOp, out>>
dvars == <<dpc, dargs, head>>
vars == <<pc, args, model, model_dict, ckpt, diag, nets, ens, lastOp, out, dpc, dargs, head>>

\* ---------------------------------------------------------------- bounds
MaxChannels == 3
MaxClasses == 2
MaxCkptWidth == 2
MaxCkptLen == 2

\* --------------------------------------------------------------- tensors
Tensor(src, shape) == [src |-> src, shape |-> shape, reps |-> 1]

\* torch.cat((a, b), 1) where b is the tensor a was built from
Cat1(a, b) ==
    [src |-> a.src,
     shape |-> [a.shape EXCEPT ![2] = a.shape[2] + b.shape[2]],
     reps |-> a.reps + b.reps]

\* dict.update
Update(d, w) ==
    [key \in (DOMAIN d) \cup (DOMAIN w) |-> IF key \in DOMAIN w THEN w[key] ELSE d[key]]

\* ------------------------------------------------------ ResNet: backbone
\* a validation that lets one more name through
ValidVersionsLoose ==
    {"resnet10", "resnet18", "resnet20", "resnet34", "resnet50", "resnet101", "resnet152", "resnet200"}

ValidVersions ==
    {"resnet10", "resnet18", "resnet34", "resnet50", "resnet101", "resnet152", "resnet200"}

InvalidVersions == {"resnet20", "ResNet50"}

NoModel == [kind |-> "NoModel"]
NoDict == [kind |-> "NoDict"]
NotRead == [kind |-> "NotRead"]

\* the parameters of the wrapped network (a representative of every group:
\* first convolution, a normalisation layer, the output layer)
FcParams == {<<"fc.weight">>, <<"fc.bias">>}
BodyParams == {<<"conv1.weight">>, <<"bn1.weight">>}
ParamNames == BodyParams \cup FcParams
\* state_dict() also holds the buffers, which are no parameters
BufferNames == {<<"bn1.running_mean">>}

\* in_features of the network's own fc: 512 * block.expansion
NativeFtrs(version) ==
    IF version \in {"resnet10", "resnet18", "resnet34"} THEN 512 ELSE 2048

LinearStateDict(src, layer) ==
    [key \in FcParams |->
        IF key = <<"fc.weight">>
        THEN Tensor(src, <<layer.out_features, layer.in_features>>)
        ELSE Tensor(src, <<layer.out_features>>)]

\* monai.networks.nets.resnetNN(spatial_dims=3, n_input_channels=k): conv1 has 64
\* output and k input channels, fc is Linear(512 * expansion, 400).  No branch of
\* the if/elif chain is taken for another version: self.model stays unset.
Backbone(version, k) ==
    IF version \notin {"resnet10", "resnet18", "resnet34", "resnet50", "resnet101", "resnet152", "resnet200"}
    THEN NoModel
    ELSE LET fc == [in_features |-> NativeFtrs(version), out_features |-> 400]
         IN [kind |-> "ResNet",
             fc |-> fc,
             sd |-> Update(
                 [key \in BodyParams \cup BufferNames |->
                     IF key = <<"conv1.weight">>
                     THEN Tensor([from |-> "init"], <<64, k>>)
                     ELSE Tensor([from |-> "init"], <<64>>)],
                 LinearStateDict([from |-> "init"], fc)),
             requires_grad |-> [p \in ParamNames |-> TRUE]]

\* an output layer that keeps the network's own number of classes
define_output_layer_keep(m, num_classes) ==
    [in_features |-> m.fc.in_features, out_features |-> m.fc.out_features]

\* define_output_layer: Linear(self.model.fc.in_features, num_classes)
define_output_layer(m, num_classes) ==
    [in_features |-> m.fc.in_features, out_features |-> num_classes]

\* self.model.fc = <layer>: the new layer's parameters are fresh and trainable
SetFc(m, layer) ==
    [m EXCEPT !.fc = layer,
              !.sd = Update(m.sd, LinearStateDict([from |-> "fresh"], layer)),
              !.requires_grad = [p \in ParamNames |-> IF p \in FcParams THEN TRUE ELSE m.requires_grad[p]]]

\* ------------------------------------------------- ResNet: the checkpoint
\* a normalisation that strips one leading "module." only
StripLeading(key) ==
    IF Len(key) > 0 /\ Head(key) = "module." THEN Tail(key) ELSE key

\* k.replace('module.', ''): every occurrence is removed, wherever it stands
Normalise(key) == SelectSeq(key, LAMBDA tok : tok # "module.")

\* {k.replace('module.', ''): v for k, v in weights_dict['state_dict'].items()}:
\* of two entries with the same new key, the later one stays
WeightsDict(entries) ==
    LET keys == {Normalise(entries[i].key) : i \in 1..Len(entries)}
        last(key) == CHOOSE i \in 1..Len(entries) :
                        /\ Normalise(entries[i].key) = key
                        /\ \A j \in 1..Len(entries) : Normalise(entries[j].key) = key => j <= i
    IN [key \in keys |-> entries[last(key)].t]

\* while channel < self.num_in_channels: cat; channel += 1
RECURSIVE Expand(_, _, _, _)
Expand(d, conv1_weight, channel, k) ==
    IF channel < k
    THEN Expand([d EXCEPT ![<<"conv1.weight">>] = Cat1(d[<<"conv1.weight">>], conv1_weight)],
                conv1_weight, channel + 1, k)
    ELSE d

\* intialize_model, given the 'state_dict' of the file that torch.load read
intialize_model(m, k, entries) ==
    LET merged == Update(m.sd, WeightsDict(entries))
    IN Expand(merged, merged[<<"conv1.weight">>], 1, k)

\* load_state_dict (strict): the keys are the model's and every shape is the model's
Loadable(m, d) ==
    /\ DOMAIN d = DOMAIN m.sd
    /\ \A key \in DOMAIN d : d[key].shape = m.sd[key].shape

load_state_dict(m, d) == [m EXCEPT !.sd = d]

\* extract_features without the second loop: the output layer stays frozen
extract_features_frozen_fc(m, feature_extraction) ==
    IF feature_extraction
    THEN [m EXCEPT !.requires_grad = [p \in ParamNames |-> FALSE]]
    ELSE [m EXCEPT !.requires_grad = [p \in ParamNames |-> TRUE]]

\* extract_features whose else branch leaves the flags as they are
extract_features_no_unfreeze(m, feature_extraction) ==
    IF feature_extraction
    THEN [m EXCEPT !.requires_grad = [p \in ParamNames |-> p \in FcParams]]
    ELSE m

\* extract_features
extract_features(m, feature_extraction) ==
    IF feature_extraction
    THEN [m EXCEPT !.requires_grad = [p \in ParamNames |-> p \in FcParams]]
    ELSE [m EXCEPT !.requires_grad = [p \in ParamNames |-> TRUE]]

\* the files torch.load may find: none, or a 'state_dict' of a few entries
CkptEntries(version) ==
    {[key |-> key, t |-> Tensor([from |-> "ckpt", key |-> key, n |-> w], <<64, w>>)] :
        key \in {<<"module.", "conv1.weight">>, <<"conv1.weight">>}, w \in 1..MaxCkptWidth}
    \cup {[key |-> key, t |-> Tensor([from |-> "ckpt", key |-> key, n |-> 0], <<64>>)] :
        key \in {<<"module.", "bn1.weight">>, <<"module.", "module.", "bn1.weight">>}}
    \cup {[key |-> <<"module.", "fc.weight">>,
           t |-> Tensor([from |-> "ckpt", key |-> <<"module.", "fc.weight">>, n |-> c], <<c, NativeFtrs(version)>>)] :
        c \in 1..MaxClasses}
    \cup {[key |-> <<"module.", "conv_seg.weight">>,
           t |-> Tensor([from |-> "ckpt", key |-> <<"module.", "conv_seg.weight">>, n |-> 0], <<64>>)]}

RECURSIVE SeqsUpTo(_, _)
SeqsUpTo(S, n) ==
    IF n = 0 THEN {<<>>}
    ELSE LET shorter == SeqsUpTo(S, n - 1)
         IN shorter \cup {Append(s, e) : s \in shorter, e \in S}

NoFile == [kind |-> "NoFile"]

Checkpoints(version) ==
    {NoFile} \cup
    {[kind |-> "File", state_dict |-> s] :
        s \in {q \in SeqsUpTo(CkptEntries(version), MaxCkptLen) :
                 \A i, j \in 1..Len(q) : q[i].key = q[j].key => i = j}}

\* ------------------------------------------------- ResNet.__init__, by step
RInit ==
    /\ pc = "start"
    /\ args \in [version : ValidVersions \cup InvalidVersions,
                 num_out_classes : 1..MaxClasses,
                 num_in_channels : 1..MaxChannels,
                 pretrained : BOOLEAN,
                 feature_extraction : BOOLEAN]
    /\ model = NoModel
    /\ model_dict = NoDict
    /\ ckpt = NotRead
    /\ diag = FALSE

\* lines 23-27: the assert, and print + exit(1) when it fails
Validate ==
    /\ pc = "start"
    /\ IF args.version \in ValidVersions
       THEN pc' = "validated" /\ diag' = FALSE
       ELSE pc' = "exited" /\ diag' = TRUE
    /\ UNCHANGED <<args, model, model_dict, ckpt>>
    /\ UNCHANGED <<evars, dvars>>

\* lines 29-45
Instantiate ==
    /\ pc = "validated"
    /\ model' = Backbone(args.version, args.num_in_channels)
    /\ pc' = "instantiated"
    /\ UNCHANGED <<args, model_dict, ckpt, diag>>
    /\ UNCHANGED <<evars, dvars>>

\* line 47; self.model.fc of an unset self.model raises AttributeError
ReplaceOutputLayer ==
    /\ pc = "instantiated"
    /\ IF model = NoModel
       THEN pc' = "raised" /\ UNCHANGED model
       ELSE /\ model' = SetFc(model, define_output_layer(model, args.num_out_classes))
            /\ pc' = "fc_replaced"
    /\ UNCHANGED <<args, model_dict, ckpt, diag>>
    /\ UNCHANGED <<evars, dvars>>

\* lines 48-49: torch.load raises when there is no file
InitializeModel ==
    /\ pc = "fc_replaced"
    /\ args.pretrained
    /\ \E file \in Checkpoints(args.version) :
          /\ ckpt' = file
          /\ IF file = NoFile
             THEN pc' = "raised" /\ UNCHANGED model_dict
             ELSE /\ model_dict' = intialize_model(model, args.num_in_channels, file.state_dict)
                  /\ pc' = "merged"
    /\ UNCHANGED <<args, model, diag>>
    /\ UNCHANGED <<evars, dvars>>

\* lines 50-51: load_state_dict raises on a key or shape that is not the model's
LoadStateDict ==
    /\ pc = "merged"
    /\ IF Loadable(model, model_dict)
       THEN model' = load_state_dict(model, model_dict) /\ pc' = "loaded"
       ELSE pc' = "raised" /\ UNCHANGED model
    /\ UNCHANGED <<args, model_dict, ckpt, diag>>
    /\ UNCHANGED <<evars, dvars>>

\* line 52, reached from line 48 (not pretrained) or from line 51
ExtractFeatures ==
    /\ \/ pc = "fc_replaced" /\ ~args.pretrained
       \/ pc = "loaded"
    /\ model' = extract_features(model, args.feature_extraction)
    /\ pc' = "done"
    /\ UNCHANGED <<args, model_dict, ckpt, diag>>
    /\ UNCHANGED <<evars, dvars>>

RNext ==
    \/ Validate
    \/ Instantiate
    \/ ReplaceOutputLayer
    \/ InitializeModel
    \/ LoadStateDict
    \/ ExtractFeatures

\* --------------------------------------------------------- EnsembleModel
NumModels == 4
NoEnsemble == [kind |-> "NoEnsemble"]
NoOutput == [kind |-> "NoOutput"]

\* the version of the k-th backbone an ensemble is built from
NetVersions == <<"resnet10", "resnet18", "resnet34", "resnet50">>

\* ResNet(version, num_out_classes, num_in_channels, pretrained=False, feature_extraction, _):
\* the whole of __init__ on its path without a checkpoint
ResNetInit(version, num_out_classes, num_in_channels, feature_extraction) ==
    LET m == Backbone(version, num_in_channels)
    IN extract_features(SetFc(m, define_output_layer(m, num_out_classes)), feature_extraction)

\* the objects passed as (model1, model2, model3, model4): one object may be
\* passed for several arguments, and an object may be left out
RECURSIVE MaxOf(_)
MaxOf(S) == IF S = {} THEN 0 ELSE LET x == CHOOSE y \in S : \A z \in S : z <= y IN x

ModelArgs ==
    {s \in [1..NumModels -> 1..NumModels] :
        \A i \in 1..NumModels : s[i] <= MaxOf({s[j] : j \in 1..(i - 1)}) + 1}

VersionLists ==
    {NetVersions, <<"resnet50", "resnet34", "resnet18", "resnet10">>}

ClassifierParams == {"weight", "bias"}

\* a freeze that spares the output layer
FreezeBody(net) == [net EXCEPT !.requires_grad = [p \in ParamNames |-> p \in FcParams /\ net.requires_grad[p]]]

\* for param in <module>.parameters(): param.requires_grad = False
Freeze(net) == [net EXCEPT !.requires_grad = [p \in ParamNames |-> FALSE]]

\* freeze_model_parameters: the four loops over the backbones, then the classifier
freeze_model_parameters(ns, e) ==
    [b \in DOMAIN ns |-> IF \E i \in 1..NumModels : e.models[i] = b THEN Freeze(ns[b]) ELSE ns[b]]

ClassifierTrainable(e) ==
    [e EXCEPT !.requires_grad = [p \in ClassifierParams |-> TRUE]]

\* ResNet.forward: one logit per output feature of model.fc, tagged by its source
NetOutput(ns, b) == [j \in 1..ns[b].fc.out_features |-> <<b, j>>]

\* a concatenation that follows the order of self.versions
forward_cat_by_version(ns, e) ==
    LET at(i) == CHOOSE j \in 1..NumModels : NetVersions[j] = e.versions[i]
    IN NetOutput(ns, e.models[at(1)]) \o NetOutput(ns, e.models[at(2)])
        \o NetOutput(ns, e.models[at(3)]) \o NetOutput(ns, e.models[at(4)])

\* torch.cat((x1, x2, x3, x4), dim=1)
forward_cat(ns, e) ==
    NetOutput(ns, e.models[1]) \o NetOutput(ns, e.models[2])
        \o NetOutput(ns, e.models[3]) \o NetOutput(ns, e.models[4])

\* self.classifier(x) raises when x is not in_features wide
forward(ns, e) ==
    LET x == forward_cat(ns, e)
    IN IF Len(x) = e.classifier.in_features
       THEN [kind |-> "Output", x |-> x, width |-> e.classifier.out_features]
       ELSE [kind |-> "Raised", x |-> x, width |-> 0]

OpOf(feature_extraction) == IF feature_extraction THEN "extract_True" ELSE "extract_False"

EInit ==
    /\ \E widths \in [1..NumModels -> 1..MaxClasses], fes \in [1..NumModels -> BOOLEAN] :
          /\ nets = [b \in 1..NumModels |-> ResNetInit(NetVersions[b], widths[b], 1, fes[b])]
          /\ lastOp = [b \in 1..NumModels |-> OpOf(fes[b])]
    /\ ens = NoEnsemble
    /\ out = NoOutput

\* EnsembleModel.__init__
ConstructEnsemble ==
    /\ ens = NoEnsemble
    /\ \E models \in ModelArgs, versions \in VersionLists, num_out_classes \in 1..MaxClasses :
          LET e == [kind |-> "Ensemble",
                    models |-> models,
                    versions |-> versions,
                    classifier |-> [in_features |-> num_out_classes * 4,
                                    out_features |-> num_out_classes],
                    requires_grad |-> [p \in ClassifierParams |-> TRUE]]
          IN /\ ens' = ClassifierTrainable(e)
             /\ nets' = freeze_model_parameters(nets, e)
             /\ lastOp' = [b \in 1..NumModels |->
                             IF \E i \in 1..NumModels : models[i] = b THEN "freeze" ELSE lastOp[b]]
    /\ UNCHANGED out
    /\ UNCHANGED <<rvars, dvars>>

\* EnsembleModel.freeze_model_parameters, called again
FreezeModelParameters ==
    /\ ens # NoEnsemble
    /\ nets' = freeze_model_parameters(nets, ens)
    /\ ens' = ClassifierTrainable(ens)
    /\ lastOp' = [b \in 1..NumModels |->
                    IF \E i \in 1..NumModels : ens.models[i] = b THEN "freeze" ELSE lastOp[b]]
    /\ UNCHANGED out
    /\ UNCHANGED <<rvars, dvars>>

\* ResNet.extract_features, called on a constructed backbone
ExtractFeaturesOn ==
    \E b \in 1..NumModels, feature_extraction \in BOOLEAN :
        /\ nets' = [nets EXCEPT ![b] = extract_features(nets[b], feature_extraction)]
        /\ lastOp' = [lastOp EXCEPT ![b] = OpOf(feature_extraction)]
        /\ UNCHANGED <<ens, out>>
        /\ UNCHANGED <<rvars, dvars>>

\* EnsembleModel.forward
Forward ==
    /\ ens # NoEnsemble
    /\ out' = forward(nets, ens)
    /\ UNCHANGED <<nets, ens, lastOp>>
    /\ UNCHANGED <<rvars, dvars>>

ENext ==
    \/ ConstructEnsemble
    \/ FreezeModelParameters
    \/ ExtractFeaturesOn
    \/ Forward

\* -------------------------------------------------------------- DINOHead
MaxInDim == 4
MaxOutDim == 2
MaxNLayers == 4

NoHead == [mlp |-> <<>>, last_layer |-> <<>>]

Linear(in_features, out_features, bias) ==
    [kind |-> "Linear", in_features |-> in_features, out_features |-> out_features,
     bias |-> bias, weight_init |-> "default", bias_init |-> IF bias THEN "default" ELSE "none",
     weight_norm |-> FALSE, g |-> "none", g_requires_grad |-> FALSE]

GELU == [kind |-> "GELU"]

Max(a, b) == IF a >= b THEN a ELSE b

\* for _ in range(nlayers - 2): Linear(hidden, hidden), GELU
RECURSIVE HiddenLayers(_, _, _)
HiddenLayers(layers, n, hidden_dim) ==
    IF n <= 0 THEN layers
    ELSE HiddenLayers(layers \o <<Linear(hidden_dim, hidden_dim, TRUE), GELU>>, n - 1, hidden_dim)

\* the hidden loop run once too often
BuildMlpOffByOne(in_dim, nlayers0) ==
    LET nlayers == Max(nlayers0, 1)
        hidden_dim == in_dim * 4
        bottleneck_dim == in_dim \div 2
    IN IF nlayers = 1
       THEN <<Linear(in_dim, bottleneck_dim, TRUE)>>
       ELSE HiddenLayers(<<Linear(in_dim, hidden_dim, TRUE), GELU>>, nlayers - 1, hidden_dim)
                \o <<Linear(hidden_dim, bottleneck_dim, TRUE)>>

\* lines 9-21: self.mlp, as the sequence of its layers
BuildMlp(in_dim, nlayers0) ==
    LET nlayers == Max(nlayers0, 1)
        hidden_dim == in_dim * 4
        bottleneck_dim == in_dim \div 2
    IN IF nlayers = 1
       THEN <<Linear(in_dim, bottleneck_dim, TRUE)>>
       ELSE HiddenLayers(<<Linear(in_dim, hidden_dim, TRUE), GELU>>, nlayers - 2, hidden_dim)
                \o <<Linear(hidden_dim, bottleneck_dim, TRUE)>>

\* _init_weights that leaves the bias as it is
_init_weights_no_bias(m) ==
    IF m.kind = "Linear"
    THEN [m EXCEPT !.weight_init = "trunc_normal_std_0.02"]
    ELSE m

\* _init_weights
_init_weights(m) ==
    IF m.kind = "Linear"
    THEN [m EXCEPT !.weight_init = "trunc_normal_std_0.02",
                   !.bias_init = IF m.bias THEN "zero" ELSE m.bias_init]
    ELSE m

\* self.apply(fn): fn on every submodule registered so far
Apply(h) ==
    [mlp |-> [i \in 1..Len(h.mlp) |-> _init_weights(h.mlp[i])],
     last_layer |-> [i \in 1..Len(h.last_layer) |-> _init_weights(h.last_layer[i])]]

\* lines 23-26: weight_norm(Linear(bottleneck_dim, out_dim, bias=False)), g filled with 1
LastLayer(in_dim, out_dim, norm_last_layer) ==
    [Linear(in_dim \div 2, out_dim, FALSE) EXCEPT
        !.weight_norm = TRUE, !.g = "one", !.g_requires_grad = ~norm_last_layer]

DInit ==
    /\ dpc = "start"
    /\ dargs \in [in_dim : 1..MaxInDim, out_dim : 1..MaxOutDim,
                  norm_last_layer : BOOLEAN, nlayers : 0..MaxNLayers]
    /\ head = NoHead

DBuildMlp ==
    /\ dpc = "start"
    /\ head' = [head EXCEPT !.mlp = BuildMlp(dargs.in_dim, dargs.nlayers)]
    /\ dpc' = "mlp"
    /\ UNCHANGED dargs
    /\ UNCHANGED <<rvars, evars>>

DApply ==
    /\ dpc = "mlp"
    /\ head' = Apply(head)
    /\ dpc' = "applied"
    /\ UNCHANGED dargs
    /\ UNCHANGED <<rvars, evars>>

DLastLayer ==
    /\ dpc = "applied"
    /\ head' = [head EXCEPT !.last_layer =
                   <<LastLayer(dargs.in_dim, dargs.out_dim, dargs.norm_last_layer)>>]
    /\ dpc' = "done"
    /\ UNCHANGED dargs
    /\ UNCHANGED <<rvars, evars>>

DNext ==
    \/ DBuildMlp
    \/ DApply
    \/ DLastLayer

\* -------------------------------------------------------- specifications
\* the construction of one ResNet: the state when __init__ is entered
InitResNet ==
    /\ RInit
    /\ nets = <<>> /\ ens = NoEnsemble /\ lastOp = <<>> /\ out = NoOutput
    /\ dpc = "idle" /\ head = NoHead
    /\ dargs = [in_dim |-> 1, out_dim |-> 1, norm_last_layer |-> TRUE, nlayers |-> 1]

SpecResNet == InitResNet /\ [][RNext]_vars

\* four constructed ResNets, then one EnsembleModel over them and the freezing calls
InitEnsemble ==
    /\ EInit
    /\ pc = "idle" /\ model = NoModel /\ model_dict = NoDict /\ ckpt = NotRead /\ diag = FALSE
    /\ args = [version |-> "resnet10", num_out_classes |-> 1, num_in_channels |-> 1,
               pretrained |-> FALSE, feature_extraction |-> FALSE]
    /\ dpc = "idle" /\ head = NoHead
    /\ dargs = [in_dim |-> 1, out_dim |-> 1, norm_last_layer |-> TRUE, nlayers |-> 1]

SpecEnsemble == InitEnsemble /\ [][ENext]_vars

\* the construction of one DINOHead: the state when __init__ is entered
InitDino ==
    /\ DInit
    /\ pc = "idle" /\ model = NoModel /\ model_dict = NoDict /\ ckpt = NotRead /\ diag = FALSE
    /\ args = [version |-> "resnet10", num_out_classes |-> 1, num_in_channels |-> 1,
               pretrained |-> FALSE, feature_extraction |-> FALSE]
    /\ nets = <<>> /\ ens = NoEnsemble /\ lastOp = <<>> /\ out = NoOutput

SpecDino == InitDino /\ [][DNext]_vars

\* ======================================================= claims: ResNet
SevenLiterals ==
    {"resnet10", "resnet18", "resnet34", "resnet50", "resnet101", "resnet152", "resnet200"}

Trainable(m) == {p \in ParamNames : m.requires_grad[p]}

\* a checkpoint key with every "module." taken out
RECURSIVE WithoutModule(_)
WithoutModule(key) ==
    IF key = <<>> THEN <<>>
    ELSE IF Head(key) = "module." THEN WithoutModule(Tail(key))
    ELSE <<Head(key)>> \o WithoutModule(Tail(key))

\* C1: when ResNet construction has completed, the parameters with
\* requires_grad = True are exactly those of model.fc when feature_extraction is
\* True, and all parameters of the wrapped model when it is False.
C1_TrainableSet ==
    pc = "done" =>
        Trainable(model) = (IF args.feature_extraction THEN FcParams ELSE ParamNames)

C1_Witness ==
    /\ pc = "done"
    /\ args.pretrained
    /\ args.feature_extraction
    /\ Trainable(model) = {<<"fc.weight">>, <<"fc.bias">>}

\* C2 (as claimed): the dictionary intialize_model returns holds a conv1 weight
\* whose input-channel count is the smallest multiple of w that is >= k, for a
\* checkpoint conv1 weight of w input channels and num_in_channels = k.
C2_SmallestMultiple ==
    (pc = "merged" /\ model_dict[<<"conv1.weight">>].src.from = "ckpt") =>
        LET w == model_dict[<<"conv1.weight">>].src.n
            k == args.num_in_channels
        IN model_dict[<<"conv1.weight">>].shape[2] = ((k + w - 1) \div w) * w

\* C3: with a version that is none of the seven literals, construction prints the
\* diagnostic and stops there: no backbone is instantiated, no output layer
\* replaced, no checkpoint read, no flag set, and no step follows the exit.
C3_InvalidVersionExits ==
    args.version \notin SevenLiterals =>
        /\ pc \in {"start", "exited"}
        /\ model = NoModel
        /\ model_dict = NoDict
        /\ ckpt = NotRead
        /\ (pc = "start" => ~diag /\ ENABLED Validate)
        /\ (pc = "exited" => diag /\ ~ENABLED RNext)

C3_Witness ==
    /\ args.version = "resnet20"
    /\ args.pretrained
    /\ pc = "exited"
    /\ diag

\* C4 (as claimed): with one of the seven versions, construction reaches the end
\* of __init__, and model.fc maps the native feature width to num_out_classes.
C4_AlwaysSucceeds ==
    (args.version \in SevenLiterals /\ pc \in {"done", "raised"}) =>
        /\ pc = "done"
        /\ model.fc = [in_features |-> Backbone(args.version, args.num_in_channels).fc.in_features,
                       out_features |-> args.num_out_classes]

\* what a checkpoint must be for load_state_dict to take the merged dictionary:
\* a readable file, every key (all "module." removed) a key of the model, every
\* tensor that stays of the model's shape, and the conv1 weight that is
\* concatenated num_in_channels times one input channel wide
C4_Compatible ==
    /\ ckpt.kind = "File"
    /\ LET sd == ckpt.state_dict
           name(i) == WithoutModule(sd[i].key)
           stays(i) == \A j \in 1..Len(sd) : name(j) = name(i) => j <= i
       IN /\ \A i \in 1..Len(sd) : name(i) \in DOMAIN model.sd
          /\ \A i \in 1..Len(sd) : stays(i) =>
                IF name(i) = <<"conv1.weight">>
                THEN sd[i].t.shape = <<model.sd[name(i)].shape[1], 1>>
                ELSE sd[i].t.shape = model.sd[name(i)].shape
          /\ (\A i \in 1..Len(sd) : name(i) # <<"conv1.weight">>) => args.num_in_channels = 1

\* C4 (amended): with one of the seven versions, construction reaches the end of
\* __init__ exactly when pretrained is False or the checkpoint is compatible;
\* whenever it does, model.fc maps the native feature width to num_out_classes.
C4_SucceedsWhenLoadable ==
    (args.version \in SevenLiterals /\ pc \in {"done", "raised"}) =>
        /\ pc = "done" <=> (~args.pretrained \/ C4_Compatible)
        /\ pc = "done" =>
              /\ model.fc = [in_features |-> Backbone(args.version, args.num_in_channels).fc.in_features,
                             out_features |-> args.num_out_classes]
              /\ model.sd[<<"fc.weight">>].shape = <<args.num_out_classes, model.fc.in_features>>
              /\ model.sd[<<"fc.bias">>].shape = <<args.num_out_classes>>

C4_Witness ==
    /\ pc = "done"
    /\ args.version = "resnet200"
    /\ args.pretrained
    /\ args.num_in_channels = 3
    /\ args.num_out_classes = 2
    /\ model.fc = [in_features |-> 2048, out_features |-> 2]

\* C7 (as claimed): the merged dictionary holds, under every checkpoint key with
\* the leading "module." stripped, the checkpoint's tensor; under every other
\* key the model's own value; and under fc.weight and fc.bias the fresh values.
C7_MergeAsClaimed ==
    pc = "merged" =>
        LET sd == ckpt.state_dict
            stripped(i) == IF Head(sd[i].key) = "module." THEN Tail(sd[i].key) ELSE sd[i].key
        IN /\ \A i \in 1..Len(sd) :
                /\ stripped(i) \in DOMAIN model_dict
                /\ model_dict[stripped(i)] = sd[i].t
           /\ \A key \in DOMAIN model.sd :
                (\A i \in 1..Len(sd) : stripped(i) # key) => model_dict[key] = model.sd[key]
           /\ \A key \in FcParams : model_dict[key].src = [from |-> "fresh"]

\* C7 (amended): the merged dictionary holds, under every key got from a
\* checkpoint key by removing every "module.", the tensor of the last checkpoint
\* entry with that key, and under every other key the model's own value; except
\* that conv1.weight holds that value concatenated num_in_channels times along
\* the input-channel axis; fc.weight and fc.bias keep their fresh values when no
\* checkpoint key names them.
C7_MergeAmended ==
    pc = "merged" =>
        LET sd == ckpt.state_dict
            name(i) == WithoutModule(sd[i].key)
            from(key) == {i \in 1..Len(sd) : name(i) = key}
            latest(key) == CHOOSE i \in from(key) : \A j \in from(key) : j <= i
            merged(key) == IF from(key) = {} THEN model.sd[key] ELSE sd[latest(key)].t
        IN /\ DOMAIN model_dict = DOMAIN model.sd \cup {name(i) : i \in 1..Len(sd)}
           /\ \A key \in DOMAIN model_dict :
                IF key = <<"conv1.weight">>
                THEN model_dict[key] =
                        [src |-> merged(key).src,
                         shape |-> <<merged(key).shape[1], merged(key).shape[2] * args.num_in_channels>>,
                         reps |-> args.num_in_channels]
                ELSE model_dict[key] = merged(key)
           /\ \A key \in FcParams :
                from(key) = {} => model_dict[key] = model.sd[key] /\ model_dict[key].src = [from |-> "fresh"]

C7_Witness ==
    /\ pc = "merged"
    /\ Len(ckpt.state_dict) = 2
    /\ ckpt.state_dict[1].key = <<"module.", "module.", "bn1.weight">>
    /\ ckpt.state_dict[2].key = <<"module.", "conv1.weight">>
    /\ args.num_in_channels = 3
    /\ model_dict[<<"bn1.weight">>] = ckpt.state_dict[1].t
    /\ model_dict[<<"conv1.weight">>].reps = 3
    /\ model_dict[<<"fc.weight">>].src = [from |-> "fresh"]

\* ================================================ claims: EnsembleModel
Members(e) == {e.models[i] : i \in 1..NumModels}

\* C5: the step that constructs the EnsembleModel leaves every parameter of each
\* of the four backbones passed in (output layer included) with requires_grad =
\* False and every parameter of the classifier with requires_grad = True,
\* whatever the flags of the backbones were before.
C5_ConstructionFreezes ==
    [][(ens = NoEnsemble /\ ens' # NoEnsemble) =>
          /\ \A i \in 1..NumModels : \A p \in ParamNames :
                ~nets'[ens'.models[i]].requires_grad[p]
          /\ \A p \in ClassifierParams : ens'.requires_grad[p]
          /\ \A b \in 1..NumModels : b \notin Members(ens') => nets'[b] = nets[b]]_vars

C5_Witness ==
    /\ ens # NoEnsemble
    /\ ens.models = <<1, 2, 3, 4>>
    /\ \A b \in 1..NumModels : lastOp[b] = "freeze" /\ Trainable(nets[b]) = {}
    /\ \A p \in ClassifierParams : ens.requires_grad[p]

\* C6: forward concatenates the outputs of the four backbones in the order of the
\* constructor's arguments, whatever self.versions holds; when every backbone
\* has num_out_classes output features the concatenation is 4 * num_out_classes
\* wide, which is the classifier's input width.
C6_ForwardOrder ==
    out # NoOutput =>
        LET w(i) == nets[ens.models[i]].fc.out_features
            off(i) == IF i = 1 THEN 0
                      ELSE IF i = 2 THEN w(1)
                      ELSE IF i = 3 THEN w(1) + w(2)
                      ELSE w(1) + w(2) + w(3)
            n == ens.classifier.out_features
        IN /\ Len(out.x) = w(1) + w(2) + w(3) + w(4)
           /\ \A i \in 1..NumModels : \A j \in 1..w(i) : out.x[off(i) + j] = <<ens.models[i], j>>
           /\ (\A i \in 1..NumModels : w(i) = n) =>
                 /\ Len(out.x) = 4 * n
                 /\ Len(out.x) = ens.classifier.in_features
                 /\ out.kind = "Output"

C6_Witness ==
    /\ out # NoOutput
    /\ out.kind = "Output"
    /\ ens.models = <<1, 2, 3, 4>>
    /\ ens.versions = <<"resnet50", "resnet34", "resnet18", "resnet10">>
    /\ out.x = <<<<1, 1>>, <<1, 2>>, <<2, 1>>, <<2, 2>>, <<3, 1>>, <<3, 2>>, <<4, 1>>, <<4, 2>>>>

\* C10: whatever freezing calls were made, in whatever order, the flags of a
\* backbone are those its most recent call left: extract_features(True) the
\* output layer alone, extract_features(False) every parameter, the ensemble's
\* freeze none; and the classifier stays trainable throughout.
C10_LastOperationDecides ==
    /\ \A b \in DOMAIN nets :
          Trainable(nets[b]) =
             (CASE lastOp[b] = "extract_True" -> FcParams
                [] lastOp[b] = "extract_False" -> ParamNames
                [] lastOp[b] = "freeze" -> {})
    /\ ens # NoEnsemble => \A p \in ClassifierParams : ens.requires_grad[p]

C10_Witness ==
    /\ ens # NoEnsemble
    /\ ens.models = <<1, 2, 3, 4>>
    /\ lastOp = <<"freeze", "extract_False", "extract_True", "freeze">>
    /\ Trainable(nets[1]) = {}
    /\ Trainable(nets[2]) = ParamNames
    /\ Trainable(nets[3]) = FcParams
    /\ \A p \in ClassifierParams : ens.requires_grad[p]

\* ===================================================== claims: DINOHead
IsLinear(l) == l.kind = "Linear"

\* C8: the MLP has exactly max(nlayers, 1) linear layers; for nlayers <= 1 it is
\* one linear map from in_dim to in_dim // 2 and nothing else; for nlayers >= 2
\* every linear layer but the last is 4 * in_dim wide and followed by an
\* activation, the last maps to in_dim // 2 and nothing follows it, and there
\* are nlayers - 1 activations.
C8_MlpShape ==
    dpc \in {"mlp", "applied", "done"} =>
        LET mlp == head.mlp
            n == dargs.nlayers
            lin == {i \in 1..Len(mlp) : IsLinear(mlp[i])}
            act == {i \in 1..Len(mlp) : mlp[i].kind = "GELU"}
        IN /\ Cardinality(lin) = (IF n >= 1 THEN n ELSE 1)
           /\ lin \cup act = 1..Len(mlp)
           /\ IF n <= 1
              THEN /\ Len(mlp) = 1
                   /\ mlp[1].in_features = dargs.in_dim
                   /\ mlp[1].out_features = dargs.in_dim \div 2
              ELSE /\ Cardinality(act) = n - 1
                   /\ Len(mlp) \in lin
                   /\ mlp[1].in_features = dargs.in_dim
                   /\ mlp[Len(mlp)].out_features = dargs.in_dim \div 2
                   /\ mlp[Len(mlp)].in_features = 4 * dargs.in_dim
                   /\ \A i \in lin : i < Len(mlp) =>
                         /\ mlp[i].out_features = 4 * dargs.in_dim
                         /\ i > 1 => mlp[i].in_features = 4 * dargs.in_dim
                         /\ (i + 1) \in act

C8_Witness ==
    /\ dpc = "done"
    /\ dargs.nlayers = 4
    /\ dargs.in_dim = 3
    /\ Len(head.mlp) = 7
    /\ head.mlp[5].in_features = 12 /\ head.mlp[5].out_features = 12
    /\ head.mlp[7].in_features = 12 /\ head.mlp[7].out_features = 1

Initialised(l) ==
    /\ l.weight_init = "trunc_normal_std_0.02"
    /\ l.bias => l.bias_init = "zero"

\* C9 (as claimed): when DINOHead construction has completed, every linear layer
\* of the MLP and last_layer have been initialised by _init_weights.
C9_AllInitialised ==
    dpc = "done" =>
        /\ \A i \in 1..Len(head.mlp) : IsLinear(head.mlp[i]) => Initialised(head.mlp[i])
        /\ \A i \in 1..Len(head.last_layer) : Initialised(head.last_layer[i])

\* C9 (amended): when DINOHead construction has completed, every linear layer of
\* the MLP has been initialised by _init_weights (truncated-normal weight, zero
\* bias); last_layer, made after the apply call, has not: it keeps the weight
\* nn.Linear gave it, has no bias, and its weight-norm magnitude is filled with 1.
C9_MlpInitialised ==
    dpc = "done" =>
        /\ \A i \in 1..Len(head.mlp) : IsLinear(head.mlp[i]) => Initialised(head.mlp[i])
        /\ Len(head.last_layer) = 1
        /\ head.last_layer[1].weight_init = "default"
        /\ ~head.last_layer[1].bias
        /\ head.last_layer[1].weight_norm
        /\ head.last_layer[1].g = "one"

C9_Witness ==
    /\ dpc = "done"
    /\ dargs.nlayers = 3
    /\ Len(head.mlp) = 5
    /\ head.mlp[5].weight_init = "trunc_normal_std_0.02"
    /\ head.mlp[5].bias_init = "zero"
    /\ head.last_layer[1].weight_init = "default"

====
